---- MODULE Spec2Model ----
(***************************************************************************)
(* AsyncQueue (src/mod.ts): a queue that is pushed into synchronously and  *)
(* consumed through an async generator.  One queue object, one producer    *)
(* side (push / close calls, optionally a producer promise handed to the   *)
(* constructor) and one consumption loop (for await ... of queue).         *)
(***************************************************************************)
EXTENDS Naturals, Sequences, FiniteSets

\* ------------------------------------------------------------------ bounds
MaxCalls == 3       \* calls of push / close that run the method bodies in one run
MaxPush == 2        \* items pushed in one run

\* ------------------------------------------------------------------ values
\* Entries of #queue.  A pushed item is the plain value v or a promise that
\* fulfils with v; v is the item's position among all pushed items.
END == [kind |-> "END", v |-> 0]
ERROR == [kind |-> "ERROR", v |-> 0]
NoEntry == [kind |-> "none", v |-> 0]

Kinds == {"value", "promise"}

Item(kind, k) == [kind |-> kind, v |-> k]

\* Error objects: a plain Error (agg = FALSE) or an AggregateError with its
\* member list.  NoError is `undefined`.
NoError == [agg |-> FALSE, id |-> "none", errors |-> <<>>]
Err(id) == [agg |-> FALSE, id |-> id, errors |-> <<>>]
UsageError == Err("AsyncQueueError: queue.push was called with no arguments")
Rejection == Err("rejected")
Errors == {Err("E1")}          \* what a caller passes as withError
TaskErrors == {Err("E2")}      \* what the producer task rejects with

Truthy(e) == e # NoError

VARIABLES
    queue,      \* #queue
    resolve,    \* #resolve: TRUE when a resolver is registered, FALSE for null
    error,      \* #error
    push,       \* the function held by the instance field push: "orig" | "noop"
    close,      \* the function held by the instance field close: "orig" | "noop"
    pc,         \* position of the consumption loop
    value,      \* the entry the loop holds (its local `value`, or what the waiter was resolved with)
    promises,   \* state of each pushed promise: "none" | "pending" | "fulfilled" | "rejected"
    wiring,     \* how the producer task is wired: "none" | "ctor" | "manual"
    task,       \* the producer task and the handlers attached to it
    yielded,    \* history: what the loop has yielded
    raised,     \* history: what the loop has thrown
    pushed,     \* history: the items of every push that ran the method body
    calls,      \* history: the calls that ran the original method bodies
    atClose,    \* history: snapshot taken by the first close
    noops       \* history: TRUE when some call has hit the no-op

vars == <<queue, resolve, error, push, close, pc, value, promises, wiring, task,
          yielded, raised, pushed, calls, atClose, noops>>

\* The queue object together with the loop suspended on it.
Obj == [queue |-> queue, resolve |-> resolve, error |-> error, push |-> push,
        close |-> close, pc |-> pc, value |-> value, yielded |-> yielded,
        raised |-> raised]

Install(s) ==
    /\ queue' = s.queue
    /\ resolve' = s.resolve
    /\ error' = s.error
    /\ push' = s.push
    /\ close' = s.close
    /\ pc' = s.pc
    /\ value' = s.value
    /\ yielded' = s.yielded
    /\ raised' = s.raised

\* ------------------------------------------------------------------ methods
handleErrorLast(s, err) == [s EXCEPT !.error = err]

handleError(s, err) ==
    IF s.error.agg
    THEN [s EXCEPT !.error.errors = Append(@, err)]
    ELSE IF Truthy(s.error)
         THEN [s EXCEPT !.error = [agg |-> TRUE, id |-> "AggregateError", errors |-> <<s.error, err>>]]
         ELSE [s EXCEPT !.error = err]

\* Variants of enqueue with a slip in them, used to test the properties below.
enqueueLifo(s, immediate, data) ==
    LET q == data \o s.queue
    IN  IF s.resolve
        THEN [s EXCEPT !.queue = Tail(q), !.value = Head(q), !.pc = "handed", !.resolve = FALSE]
        ELSE [s EXCEPT !.queue = q, !.resolve = FALSE]

enqueueTail(s, immediate, data) ==
    LET q == s.queue \o data
    IN  IF s.resolve
        THEN [s EXCEPT !.queue = Tail(q), !.value = Head(q), !.pc = "handed", !.resolve = FALSE]
        ELSE [s EXCEPT !.queue = q, !.resolve = FALSE]

enqueueNoShift(s, immediate, data) ==
    LET q == IF immediate THEN data \o s.queue ELSE s.queue \o data
    IN  IF s.resolve
        THEN [s EXCEPT !.queue = q, !.value = Head(q), !.pc = "handed", !.resolve = FALSE]
        ELSE [s EXCEPT !.queue = q, !.resolve = FALSE]

enqueueNoWake(s, immediate, data) ==
    [s EXCEPT !.queue = IF immediate THEN data \o s.queue ELSE s.queue \o data]

\* data is unshifted or pushed; a registered resolver is called with the
\* shifted head (which resolves the promise the loop awaits) and cleared.
enqueue(s, immediate, data) ==
    LET q == IF immediate THEN data \o s.queue ELSE s.queue \o data
    IN  IF s.resolve
        THEN [s EXCEPT !.queue = Tail(q), !.value = Head(q), !.pc = "handed", !.resolve = FALSE]
        ELSE [s EXCEPT !.queue = q, !.resolve = FALSE]

pushBodyCloses(s, data) ==
    IF Len(data) > 0
    THEN enqueue(s, FALSE, data)
    ELSE [handleError(enqueue(s, FALSE, <<ERROR>>), UsageError)
            EXCEPT !.push = "noop", !.close = "noop"]

pushBodyMarkerOnly(s, data) ==
    IF Len(data) > 0
    THEN enqueue(s, FALSE, data)
    ELSE enqueue(s, FALSE, <<ERROR>>)

pushBody(s, data) ==
    IF Len(data) > 0
    THEN enqueue(s, FALSE, data)
    ELSE handleError(enqueue(s, FALSE, <<ERROR>>), UsageError)

closeBodyEnd(s, immediately, withError) ==
    LET s1 == IF Truthy(withError) THEN handleError(s, withError) ELSE s
        s2 == enqueue(s1, immediately, <<END>>)
    IN  [s2 EXCEPT !.push = "noop", !.close = "noop"]

closeBody(s, immediately, withError) ==
    LET s1 == IF Truthy(withError) THEN handleError(s, withError) ELSE s
        s2 == enqueue(s1, immediately, <<IF Truthy(withError) THEN ERROR ELSE END>>)
    IN  [s2 EXCEPT !.push = "noop", !.close = "noop"]

\* queue.push(...) and queue.close(...): the property is read at the call.
pushCall(s, data) == IF s.push = "orig" THEN pushBody(s, data) ELSE s

closeCallAlways(s, immediately, withError) == closeBody(s, immediately, withError)

closeCall(s, immediately, withError) ==
    IF s.close = "orig" THEN closeBody(s, immediately, withError) ELSE s

\* ------------------------------------------------------------------ the loop
\* What awaiting a fulfilled promise gives: the value it fulfilled with.
AwaitIdentity(p) == p

Await(p) == Item("value", p.v)

inspectPastEnd(s, v) ==
    IF v = ERROR THEN [s EXCEPT !.pc = "thrown", !.raised = s.error, !.value = NoEntry]
    ELSE IF v = END THEN [s EXCEPT !.pc = "idle", !.value = NoEntry]
    ELSE IF v.kind = "value"
         THEN [s EXCEPT !.pc = "idle", !.yielded = Append(@, v), !.value = NoEntry]
    ELSE IF promises[v.v] = "fulfilled"
         THEN [s EXCEPT !.pc = "idle", !.yielded = Append(@, Await(v)), !.value = NoEntry]
    ELSE IF promises[v.v] = "rejected"
         THEN [s EXCEPT !.pc = "thrown", !.raised = Rejection, !.value = NoEntry]
    ELSE [s EXCEPT !.pc = "yielding", !.value = v]

\* Lines 54-56 for the entry v.  `yield v` of an async generator awaits v.
inspect(s, v) ==
    IF v = ERROR THEN [s EXCEPT !.pc = "thrown", !.raised = s.error, !.value = NoEntry]
    ELSE IF v = END THEN [s EXCEPT !.pc = "done", !.value = NoEntry]
    ELSE IF v.kind = "value"
         THEN [s EXCEPT !.pc = "idle", !.yielded = Append(@, v), !.value = NoEntry]
    ELSE IF promises[v.v] = "fulfilled"
         THEN [s EXCEPT !.pc = "idle", !.yielded = Append(@, Await(v)), !.value = NoEntry]
    ELSE IF promises[v.v] = "rejected"
         THEN [s EXCEPT !.pc = "thrown", !.raised = Rejection, !.value = NoEntry]
    ELSE [s EXCEPT !.pc = "yielding", !.value = v]

\* Lines 51-53 on a call of next(): take the head, or register as waiter.
pull(s) ==
    IF Len(s.queue) > 0
    THEN inspect([s EXCEPT !.queue = Tail(@)], Head(s.queue))
    ELSE [s EXCEPT !.resolve = TRUE, !.pc = "waiting"]

\* The await of line 53 returns.  A promise resolved with a promise adopts it,
\* so the loop gets the fulfilled value or the rejection is thrown at the await.
resume(s) ==
    IF s.value.kind = "promise"
    THEN IF promises[s.value.v] = "fulfilled"
         THEN inspect(s, Await(s.value))
         ELSE [s EXCEPT !.pc = "thrown", !.raised = Rejection, !.value = NoEntry]
    ELSE inspect(s, s.value)

\* ------------------------------------------------------------------ history
CallRec(op, n, immediately, withError) ==
    [op |-> op, n |-> n, imm |-> immediately, err |-> withError]

NotClosed ==
    [called |-> FALSE, imm |-> FALSE, err |-> NoError, by |-> "none",
     buf |-> <<>>, npush |-> 0, nyield |-> 0, pc |-> "idle", value |-> NoEntry]

Snapshot(immediately, withError, by) ==
    IF atClose.called THEN atClose
    ELSE [called |-> TRUE, imm |-> immediately, err |-> withError, by |-> by,
          buf |-> queue, npush |-> Len(pushed), nyield |-> Len(yielded), pc |-> pc,
          value |-> value]

\* ------------------------------------------------------------------ actions
Init ==
    /\ queue = <<>>
    /\ resolve = FALSE
    /\ error = NoError
    /\ push = "orig"
    /\ close = "orig"
    /\ pc = "idle"
    /\ value = NoEntry
    /\ promises = [k \in 1..MaxPush |-> "none"]
    /\ wiring = "none"
    /\ task = [st |-> "absent", err |-> NoError, npush |-> 0]
    /\ yielded = <<>>
    /\ raised = NoError
    /\ pushed = <<>>
    /\ calls = <<>>
    /\ atClose = NotClosed
    /\ noops = FALSE

ArgLists == UNION {[1..n -> Kinds] : n \in 0..(MaxPush - Len(pushed))}

\* A call of push with Len(kinds) arguments, through the property
\* (queue.push(...)) or through a reference to the function taken earlier.
Push(via, kinds) ==
    LET data == [i \in 1..Len(kinds) |-> Item(kinds[i], Len(pushed) + i)]
    IN  IF via = "captured" \/ push = "orig"
        THEN /\ Len(calls) < MaxCalls
             /\ Install(IF via = "captured" THEN pushBody(Obj, data) ELSE pushCall(Obj, data))
             /\ pushed' = pushed \o data
             /\ promises' = [k \in 1..MaxPush |->
                    IF k > Len(pushed) /\ k <= Len(pushed) + Len(kinds)
                       /\ kinds[k - Len(pushed)] = "promise"
                    THEN "pending" ELSE promises[k]]
             /\ calls' = Append(calls, CallRec("push", Len(kinds), FALSE, NoError))
             /\ UNCHANGED <<wiring, task, atClose, noops>>
        ELSE /\ Install(pushCall(Obj, data))
             /\ noops' = TRUE
             /\ UNCHANGED <<promises, wiring, task, pushed, calls, atClose>>

Close(via, immediately, withError) ==
    IF via = "captured" \/ close = "orig"
    THEN /\ Len(calls) < MaxCalls
         /\ Install(IF via = "captured" THEN closeBody(Obj, immediately, withError)
                    ELSE closeCall(Obj, immediately, withError))
         /\ calls' = Append(calls, CallRec("close", 0, immediately, withError))
         /\ atClose' = Snapshot(immediately, withError, "call")
         /\ UNCHANGED <<promises, wiring, task, pushed, noops>>
    ELSE /\ Install(closeCall(Obj, immediately, withError))
         /\ noops' = TRUE
         /\ UNCHANGED <<promises, wiring, task, pushed, calls, atClose>>

\* A close issued by a handler of the producer task, through the property.
HandlerClose(s, withError, by) ==
    /\ Install(closeCall(s, FALSE, withError))
    /\ IF s.close = "orig"
       THEN /\ calls' = Append(calls, CallRec("close", 0, FALSE, withError))
            /\ atClose' = Snapshot(FALSE, withError, by)
       ELSE UNCHANGED <<calls, atClose>>

\* The promise given to the constructor settles (e = NoError: it fulfils).
TaskSettle(e) ==
    /\ wiring = "ctor"
    /\ task.st = "running"
    /\ task' = [st |-> IF Truthy(e) THEN "rejected" ELSE "fulfilled",
                err |-> e, npush |-> Len(pushed)]
    /\ UNCHANGED <<queue, resolve, error, push, close, pc, value, promises, wiring,
                   yielded, raised, pushed, calls, atClose, noops>>

CatchHandlerNoError ==
    /\ task.st = "rejected"
    /\ HandlerClose(Obj, NoError, "catch")
    /\ task' = [task EXCEPT !.st = "caught"]
    /\ UNCHANGED <<promises, wiring, pushed, noops>>

\* .catch(err => this.close({ withError: err }))
CatchHandler ==
    /\ task.st = "rejected"
    /\ HandlerClose(Obj, task.err, "catch")
    /\ task' = [task EXCEPT !.st = "caught"]
    /\ UNCHANGED <<promises, wiring, pushed, noops>>

\* .finally(() => this.close())
FinallyHandler ==
    /\ task.st \in {"fulfilled", "caught"}
    /\ HandlerClose(Obj, NoError, "finally")
    /\ task' = [task EXCEPT !.st = "done"]
    /\ UNCHANGED <<promises, wiring, pushed, noops>>

ManualSettleNoCatch(e) ==
    /\ wiring = "manual"
    /\ task.st = "running"
    /\ Install(closeCall(Obj, FALSE, NoError))
    /\ IF close = "orig"
       THEN /\ calls' = Append(calls, CallRec("close", 0, FALSE, NoError))
            /\ atClose' = Snapshot(FALSE, NoError, IF Truthy(e) THEN "catch" ELSE "finally")
       ELSE UNCHANGED <<calls, atClose>>
    /\ task' = [st |-> "done", err |-> e, npush |-> Len(pushed)]
    /\ UNCHANGED <<promises, wiring, pushed, noops>>

\* The producer wired by hand (README, "Customize error handling"): its catch
\* block calls queue.close({ withError: err }), its finally block queue.close().
ManualSettle(e) ==
    /\ wiring = "manual"
    /\ task.st = "running"
    /\ LET s1 == IF Truthy(e) THEN closeCall(Obj, FALSE, e) ELSE Obj
       IN  /\ Install(closeCall(s1, FALSE, NoError))
           /\ IF close = "orig"
              THEN /\ calls' = Append(calls, CallRec("close", 0, FALSE, e))
                   /\ atClose' = Snapshot(FALSE, e, IF Truthy(e) THEN "catch" ELSE "finally")
              ELSE UNCHANGED <<calls, atClose>>
    /\ task' = [st |-> "done", err |-> e, npush |-> Len(pushed)]
    /\ UNCHANGED <<promises, wiring, pushed, noops>>

\* A pushed promise settles.
Settle(k, r) ==
    /\ promises[k] = "pending"
    /\ promises' = [promises EXCEPT ![k] = r]
    /\ UNCHANGED <<queue, resolve, error, push, close, pc, value, wiring, task,
                   yielded, raised, pushed, calls, atClose, noops>>

\* The consumer calls next() on the generator.
Pull ==
    /\ pc = "idle"
    /\ Install(pull(Obj))
    /\ UNCHANGED <<promises, wiring, task, pushed, calls, atClose, noops>>

\* The loop continues after the waiter's promise was resolved.
Resume ==
    /\ pc = "handed"
    /\ value.kind = "promise" => promises[value.v] # "pending"
    /\ Install(resume(Obj))
    /\ UNCHANGED <<promises, wiring, task, pushed, calls, atClose, noops>>

\* The loop continues after the promise awaited by `yield value` settled.
YieldAwait ==
    /\ pc = "yielding"
    /\ promises[value.v] # "pending"
    /\ Install(inspect(Obj, value))
    /\ UNCHANGED <<promises, wiring, task, pushed, calls, atClose, noops>>

Producer ==
    \/ \E via \in {"method", "captured"}, kinds \in ArgLists : Push(via, kinds)
    \/ \E via \in {"method", "captured"}, i \in BOOLEAN, e \in Errors \cup {NoError} :
          Close(via, i, e)

Task ==
    \/ \E e \in TaskErrors \cup {NoError} : TaskSettle(e)
    \/ CatchHandler
    \/ FinallyHandler
    \/ \E e \in TaskErrors \cup {NoError} : ManualSettle(e)

Promises == \E k \in 1..MaxPush, r \in {"fulfilled", "rejected"} : Settle(k, r)

Consumer == Pull \/ Resume \/ YieldAwait

\* A queue constructed without a producer promise.
Next == Producer \/ Promises \/ Consumer

Spec == Init /\ [][Next]_vars

\* A queue whose producer is a promise: given to the constructor, or wired
\* to the queue by hand.  The producer calls the methods of the queue while
\* it runs, and none once its promise has settled.
TaskInit ==
    /\ queue = <<>>
    /\ resolve = FALSE
    /\ error = NoError
    /\ push = "orig"
    /\ close = "orig"
    /\ pc = "idle"
    /\ value = NoEntry
    /\ promises = [k \in 1..MaxPush |-> "none"]
    /\ wiring \in {"ctor", "manual"}
    /\ task = [st |-> "running", err |-> NoError, npush |-> 0]
    /\ yielded = <<>>
    /\ raised = NoError
    /\ pushed = <<>>
    /\ calls = <<>>
    /\ atClose = NotClosed
    /\ noops = FALSE

TaskProducer ==
    /\ task.st = "running"
    /\ \/ \E kinds \in ArgLists : Push("method", kinds)
       \/ \E i \in BOOLEAN, e \in Errors \cup {NoError} : Close("method", i, e)

TaskNext == TaskProducer \/ Task \/ Promises \/ Consumer

TaskSpec == TaskInit /\ [][TaskNext]_vars

\* The same producer pushing one item per call (or none).
LiveProducer ==
    /\ task.st = "running"
    /\ \/ \E kinds \in {a \in ArgLists : Len(a) <= 1} : Push("method", kinds)
       \/ \E i \in BOOLEAN, e \in Errors \cup {NoError} : Close("method", i, e)

LiveNext == LiveProducer \/ Task \/ Promises \/ Consumer

\* A queue whose callers may also pass an AggregateError of their own as
\* withError; pushes carry one item or none.
AggError == [agg |-> TRUE, id |-> "A", errors |-> <<Err("A1"), Err("A2")>>]

AggProducer ==
    \/ \E via \in {"method", "captured"}, kinds \in {a \in ArgLists : Len(a) <= 1} :
          Push(via, kinds)
    \/ \E via \in {"method", "captured"}, i \in BOOLEAN,
            e \in Errors \cup {AggError, NoError} : Close(via, i, e)

AggNext == AggProducer \/ Promises \/ Consumer

AggSpec == Init /\ [][AggNext]_vars

\* ------------------------------------------------------------------ vocabulary
Terminated == pc \in {"done", "thrown"}

\* The values a sequence of pushed items stands for.
Resolved(items) == [i \in 1..Len(items) |-> [kind |-> "value", v |-> items[i].v]]

IsPrefix(a, b) == Len(a) <= Len(b) /\ \A i \in 1..Len(a) : a[i] = b[i]

NoRejection == \A k \in 1..MaxPush : promises[k] # "rejected"

\* Some push was called with no arguments.
ZeroPush == \E i \in 1..Len(calls) : calls[i].op = "push" /\ calls[i].n = 0

\* A method body ran after the first close (through a captured reference).
Late == \E i \in 1..Len(calls) : calls[i].op = "close" /\ i < Len(calls)

\* Values the loop can still yield after the first close although it has not
\* yielded them yet: the one it already holds.
Held == IF atClose.pc \in {"handed", "yielding"} THEN 1 ELSE 0

TypeOK ==
    /\ resolve \in BOOLEAN
    /\ push \in {"orig", "noop"}
    /\ close \in {"orig", "noop"}
    /\ pc \in {"idle", "waiting", "handed", "yielding", "done", "thrown"}

\* ------------------------------------------------------------------ claims
\* The first close was graceful, every push carried at least one value, no
\* captured method ran after the close and no pushed promise rejected.
GracefulRun ==
    /\ atClose.called /\ ~atClose.imm /\ ~Truthy(atClose.err)
    /\ ~ZeroPush /\ ~Late /\ NoRejection

\* C1: pushes carrying v1..vn followed by a graceful close: in every
\* interleaving with the consumer's pulls the loop yields a prefix of v1..vn
\* in push order, never raises, and when it ends it ended normally having
\* yielded exactly v1..vn.
C1_Fifo ==
    GracefulRun =>
        /\ IsPrefix(yielded, Resolved(pushed))
        /\ pc # "thrown"
        /\ pc = "done" => yielded = Resolved(pushed)

C1_Witness ==
    /\ GracefulRun
    /\ pc = "done"
    /\ Len(yielded) = 2
    /\ Len(calls) = 3

\* The first close was close({withError: E}) without immediately and no other
\* failure was recorded.
ErrorRun ==
    /\ atClose.called /\ ~atClose.imm /\ Truthy(atClose.err)
    /\ ~ZeroPush /\ ~Late /\ NoRejection

\* C2: after close({withError: E}) as first close the loop never ends
\* normally; it yields the values pushed before the close in order and, when
\* it ends, it has yielded all of them and raised exactly E.
C2_ErrorSurfacing ==
    ErrorRun =>
        /\ pc # "done"
        /\ IsPrefix(yielded, Resolved(pushed))
        /\ pc = "thrown" =>
              /\ raised = atClose.err
              /\ yielded = Resolved(SubSeq(pushed, 1, atClose.npush))

C2_Witness ==
    /\ ErrorRun
    /\ pc = "thrown"
    /\ Len(yielded) = 2
    /\ Len(atClose.buf) >= 1

\* The sentinel close enqueues for withError.
Sentinel(withError) == IF Truthy(withError) THEN ERROR ELSE END

\* C3: when the first close has immediately: true, its sentinel goes to the
\* head of the buffer (or to the suspended waiter), no value that was in the
\* buffer at that call is ever yielded, the loop yields at most the value it
\* already held and never suspends again, and (no captured method running
\* afterwards, no rejected promise, no error marker already in flight) it
\* ends normally without withError and by raising the failure with it.
C3_ImmediateStarves ==
    /\ [][(~atClose.called /\ atClose'.called /\ atClose'.imm) =>
            IF resolve
            THEN queue = <<>> /\ queue' = <<>> /\ value' = Sentinel(atClose'.err)
            ELSE queue' = <<Sentinel(atClose'.err)>> \o queue]_vars
    /\ []((atClose.called /\ atClose.imm) =>
            /\ \A i \in 1..Len(yielded), j \in 1..Len(atClose.buf) :
                  yielded[i].v # atClose.buf[j].v
            /\ Len(yielded) <= atClose.nyield + Held
            /\ pc # "waiting"
            /\ (~Late /\ NoRejection /\ atClose.value # ERROR
                    /\ ~(atClose.pc \in {"done", "thrown"})) =>
                  /\ pc = "done" => ~Truthy(atClose.err)
                  /\ pc = "thrown" => Truthy(atClose.err) /\ raised = error)

C3_Witness ==
    /\ atClose.called /\ atClose.imm
    /\ Len(atClose.buf) = 2
    /\ atClose.buf[1].kind = "value"
    /\ Terminated

\* The producer called push(v1), push(v2), close({immediately: true}).
C4_Scenario ==
    calls = << CallRec("push", 1, FALSE, NoError), CallRec("push", 1, FALSE, NoError),
               CallRec("close", 0, TRUE, NoError) >>

\* C4 as stated: after push(v1), push(v2), close({immediately: true}) the loop
\* yields nothing and does not raise, whatever the consumer was doing.
C4_Original == C4_Scenario => (yielded = <<>> /\ pc # "thrown")

\* C4, amended: after push(v1), push(v2), close({immediately: true}) the loop
\* yields nothing and ends without error when the consumer took no entry
\* before the close; otherwise it yields only what it took before the close,
\* never a value still buffered at the close, and raises only if a pushed
\* promise rejects.
C4_ImmediatePrecedence ==
    C4_Scenario =>
        /\ (atClose.nyield = 0 /\ atClose.pc = "idle") =>
              yielded = <<>> /\ pc \in {"idle", "done"}
        /\ Len(yielded) <= atClose.nyield + Held
        /\ Len(yielded) + Len(atClose.buf) <= 2
        /\ NoRejection => pc # "thrown"

C4_Witness ==
    /\ C4_Scenario
    /\ atClose.pc = "idle"
    /\ Len(atClose.buf) = 2
    /\ pc = "done"
    /\ yielded = <<>>

\* C5: once close has been called, the fields push and close hold the no-op,
\* every later call of queue.push(...) or queue.close(...) leaves the buffer,
\* the waiter slot, the failure and the loop as they are, and (no captured
\* method, no zero-argument push, no rejected promise) the loop ends the way
\* the first close's sentinel says.
C5_IdempotentClose ==
    /\ [](atClose.called => (push = "noop" /\ close = "noop"))
    /\ [][(noops' # noops) => UNCHANGED <<queue, resolve, error, pc, value, push, close>>]_vars
    /\ []((noops /\ ~Late /\ ~ZeroPush /\ NoRejection) =>
            /\ pc = "done" => ~Truthy(atClose.err)
            /\ pc = "thrown" => raised = atClose.err)

C5_Witness ==
    /\ noops
    /\ ~Late /\ ~ZeroPush /\ NoRejection
    /\ pc = "thrown"
    /\ Len(yielded) = 1

\* C9: a push of the single value v that finds the loop suspended as waiter
\* hands v over: afterwards the buffer is still empty, the waiter slot is
\* cleared and the loop holds v; and the next thing a loop holding a value
\* yields is that value.
C9_LiveHandoff ==
    /\ [][(pc = "waiting" /\ Len(pushed') = Len(pushed) + 1) =>
            /\ queue = <<>>
            /\ queue' = <<>>
            /\ ~resolve'
            /\ pc' = "handed"
            /\ value' = pushed'[Len(pushed')]]_vars
    /\ [][(pc = "handed" /\ yielded' # yielded) =>
            yielded' = Append(yielded, [kind |-> "value", v |-> value.v])]_vars

\* The state a push(v) leaves when it found the loop suspended.
C9_Witness ==
    /\ calls = << CallRec("push", 1, FALSE, NoError) >>
    /\ pc = "handed"
    /\ value = [kind |-> "value", v |-> 1]
    /\ queue = <<>>
    /\ ~resolve

\* C10: what the loop yields for a pushed promise is the value it fulfilled
\* with, at its push position: the yielded sequence is always a prefix of
\* the pushed values, a promise is yielded only once fulfilled, and while
\* the loop holds a pending promise nothing pushed after it has been yielded.
C10_DeferredTransparency ==
    /\ \A i \in 1..Len(yielded) : yielded[i].kind = "value"
    /\ IsPrefix(yielded, Resolved(pushed))
    /\ \A i \in 1..Len(yielded) :
          pushed[i].kind = "promise" => promises[i] = "fulfilled"
    /\ (pc \in {"handed", "yielding"} /\ value.kind = "promise") =>
          Len(yielded) = value.v - 1

\* The second promise fulfilled first; the loop, handed the first one, waits.
C10_Witness ==
    /\ Len(pushed) = 2
    /\ pushed[1].kind = "promise" /\ pushed[2].kind = "promise"
    /\ promises[1] = "pending" /\ promises[2] = "fulfilled"
    /\ pc = "handed"
    /\ value = pushed[1]

\* ------------------------------------------------------------------ producer task
\* The first close came from the handlers of the producer task, every push
\* carried at least one value and no pushed promise rejected.
TaskRun(by) ==
    /\ atClose.called /\ atClose.by = by
    /\ ~ZeroPush /\ NoRejection

\* C6: a queue constructed with a producer promise that rejects with E, not
\* closed before by another call: the loop never ends normally, yields the
\* pushed values in order and, when it ends, has yielded at least all values
\* pushed before the rejection and raised E; the close() of the finally
\* handler that follows changes nothing.
C6_TaskFailure ==
    /\ []((wiring = "ctor" /\ TaskRun("catch")) =>
            /\ pc # "done"
            /\ IsPrefix(yielded, Resolved(pushed))
            /\ pc = "thrown" =>
                  /\ raised = task.err
                  /\ Len(yielded) >= task.npush
                  /\ yielded = Resolved(SubSeq(pushed, 1, atClose.npush)))
    /\ [][(task.st = "caught" /\ task'.st = "done") =>
            UNCHANGED <<queue, resolve, error, push, close, pc, value>>]_vars

C6_Witness ==
    /\ wiring = "ctor" /\ TaskRun("catch")
    /\ task.st = "done"
    /\ task.npush = 2
    /\ pc = "thrown"
    /\ raised = Err("E2")

\* The fairness the event loop gives: a handler of a settled promise runs, a
\* pushed promise settles, and the consumer keeps pulling.
FairTaskSpec ==
    /\ TaskInit /\ [][LiveNext]_vars
    /\ WF_vars(Consumer)
    /\ WF_vars(Promises)
    /\ WF_vars(CatchHandler)
    /\ WF_vars(FinallyHandler)

\* C7: once close has been called, directly or because the producer task has
\* settled, a consumer that keeps pulling leaves the loop, normally or by
\* raising.
C7_Termination ==
    (atClose.called \/ task.st \in {"rejected", "fulfilled", "caught", "done"}) ~> Terminated

\* The producer task fulfilled while the loop was suspended as waiter, and
\* the loop has ended.
C7_Witness ==
    /\ atClose.called
    /\ atClose.by = "finally"
    /\ atClose.pc = "waiting"
    /\ task.st = "done"
    /\ pc = "done"

\* What the consumer gets from a producer that pushed `items` and then
\* settled with e (NoError: it fulfilled).
Delivered(items, e) ==
    [yielded |-> Resolved(items),
     pc |-> IF Truthy(e) THEN "thrown" ELSE "done",
     raised |-> e]

\* C8: with the producer promise given to the constructor and with the
\* producer calling close({withError: err}) in its catch block and close()
\* in its finally block, the consumer is delivered the same thing: when the
\* loop has ended it has yielded the pushed values and ended as the producer
\* settled, whichever the wiring.
C8_WiringEquivalence ==
    \A w \in {"ctor", "manual"} :
        (wiring = w /\ (TaskRun("catch") \/ TaskRun("finally")) /\ Terminated) =>
            [yielded |-> yielded, pc |-> pc, raised |-> raised] = Delivered(pushed, task.err)

C8_Witness ==
    /\ wiring = "manual"
    /\ TaskRun("catch")
    /\ Len(pushed) = 2
    /\ pc = "thrown"

\* ------------------------------------------------------------------ failures
\* The failure state after err is recorded on top of the state e.
Merged(e, err) ==
    IF e = NoError THEN err
    ELSE IF e.agg THEN [e EXCEPT !.errors = Append(@, err)]
    ELSE [agg |-> TRUE, id |-> "AggregateError", errors |-> <<e, err>>]

\* The step is a call of push with no arguments that ran the method body.
ZeroPushStep == calls' = Append(calls, CallRec("push", 0, FALSE, NoError))

\* C11: on an open queue push() records the usage failure and appends an
\* error marker (or hands it to the suspended waiter) without closing the
\* queue: push and close stay live, a later push(v) still appends v and a
\* later close still records its failure and adds its sentinel.
C11_ZeroArgumentPush ==
    /\ [][(ZeroPushStep /\ ~atClose.called) =>
            /\ error' = Merged(error, UsageError)
            /\ IF resolve
               THEN queue' = queue /\ value' = ERROR /\ pc' = "handed" /\ ~resolve'
               ELSE queue' = Append(queue, ERROR)
            /\ push' = "orig" /\ close' = "orig"]_vars
    /\ []((ZeroPush /\ ~atClose.called) => (push = "orig" /\ close = "orig" /\ ~resolve))
    /\ [][(ZeroPush /\ ~atClose.called /\ Len(pushed') > Len(pushed)) =>
            queue' = queue \o SubSeq(pushed', Len(pushed) + 1, Len(pushed'))]_vars
    /\ [][(ZeroPush /\ ~atClose.called /\ atClose'.called) =>
            /\ error' = IF Truthy(atClose'.err) THEN Merged(error, atClose'.err) ELSE error
            /\ queue' = IF atClose'.imm THEN <<Sentinel(atClose'.err)>> \o queue
                         ELSE Append(queue, Sentinel(atClose'.err))]_vars

\* push(), push(v), close({withError: E}) with the consumer not pulling.
C11_Witness ==
    /\ calls = << CallRec("push", 0, FALSE, NoError), CallRec("push", 1, FALSE, NoError),
                  CallRec("close", 0, FALSE, Err("E1")) >>
    /\ queue = << ERROR, [kind |-> "value", v |-> 1], ERROR >>
    /\ error = [agg |-> TRUE, id |-> "AggregateError", errors |-> <<UsageError, Err("E1")>>]

\* The sentinel the step's close has placed: handed to the waiter, or at the
\* head or the tail of the buffer.
Placed ==
    IF resolve THEN value'
    ELSE IF atClose'.imm THEN Head(queue') ELSE queue'[Len(queue')]

\* C12: the first close places an error marker whenever a failure is present
\* after merging its own withError (also one recorded earlier by push()),
\* and an end marker only when no failure is present.
C12_SentinelChoice ==
    [][(~atClose.called /\ atClose'.called) =>
        Placed = IF Truthy(error') THEN ERROR ELSE END]_vars

\* C13: every recorded failure is raised to the consumer; in particular no
\* run ends normally with a failure recorded (stated for runs in which no
\* captured method runs after the close).
C13_EveryFailureRaised == (~Late /\ pc = "done") => error = NoError

\* The failures recorded by the first n calls, in report order.
RECURSIVE RecordedBy(_)
RecordedBy(n) ==
    IF n = 0 THEN <<>>
    ELSE RecordedBy(n - 1) \o
         (IF calls[n].op = "push" /\ calls[n].n = 0 THEN <<UsageError>>
          ELSE IF calls[n].op = "close" /\ Truthy(calls[n].err) THEN <<calls[n].err>>
          ELSE <<>>)

Recorded == RecordedBy(Len(calls))

\* C14: the accumulated failure is absent, the single first recorded
\* failure, or a compound failure whose members are exactly the failures
\* recorded so far, in report order.
C14_FailureAccumulation ==
    error = IF Len(Recorded) = 0 THEN NoError
            ELSE IF Len(Recorded) = 1 THEN Recorded[1]
            ELSE [agg |-> TRUE, id |-> "AggregateError", errors |-> Recorded]

\* The loop reaches an error marker in this step (it raises what #error holds).
RaiseStep == pc # "thrown" /\ pc' = "thrown" /\ raised' # Rejection

\* Some close was called with a failure.
ErrorClose == \E i \in 1..Len(calls) : calls[i].op = "close" /\ Truthy(calls[i].err)

SentinelCall(c) == c.op = "close" \/ c.n = 0

\* The number of items pushed by the calls from the i-th on that come before
\* the first call placing a sentinel.
RECURSIVE BeforeSentinel(_)
BeforeSentinel(i) ==
    IF i > Len(calls) \/ SentinelCall(calls[i]) THEN 0
    ELSE calls[i].n + BeforeSentinel(i + 1)

\* C16: no value pushed after the first sentinel was placed (by a close or by
\* push()) is ever yielded by the loop, whatever the interleaving of producer
\* calls and consumer pulls.
C16_NothingAfterSentinel ==
    \A i \in 1..Len(yielded) : yielded[i].v <= BeforeSentinel(1)

\* push(v1), push(), push(v2): the loop yielded v1 and raised at the marker,
\* v2 stays in the buffer.
C16_Witness ==
    /\ Len(calls) = 3 /\ calls[1].n = 1 /\ calls[2].op = "push" /\ calls[2].n = 0
    /\ calls[3].n = 1
    /\ pc = "thrown"
    /\ Len(yielded) = 1
    /\ queue = <<pushed[2]>>

\* The entries the step's call inserts and the buffer right after insertion.
Inserted ==
    LET c == calls'[Len(calls')]
    IN  IF c.op = "close" THEN <<Sentinel(c.err)>>
        ELSE IF c.n = 0 THEN <<ERROR>>
        ELSE SubSeq(pushed', Len(pushed) + 1, Len(pushed'))

AfterInsertion ==
    IF calls'[Len(calls')].imm THEN Inserted \o queue ELSE queue \o Inserted

IsItem(e) == e.kind \in Kinds

\* Items the loop has taken for good: those yielded, and the one whose
\* rejection it raised.
Consumed == Len(yielded) + (IF raised = Rejection THEN 1 ELSE 0)

\* C17: a push or close that finds the waiter hands it exactly the head of the
\* buffer after insertion and leaves the rest in the buffer in order; in every
\* state each pushed item is in exactly one place: consumed, held by the loop
\* (in flight to it) or in the buffer, in push order, none twice, none lost.
C17_ExactlyOneDelivery ==
    /\ [][(Len(calls') > Len(calls) /\ resolve) =>
            /\ value' = Head(AfterInsertion)
            /\ queue' = Tail(AfterInsertion)
            /\ pc' = "handed" /\ ~resolve']_vars
    /\ [](/\ Consumed <= Len(pushed)
          /\ yielded = Resolved(SubSeq(pushed, 1, Len(yielded)))
          /\ SubSeq(pushed, Consumed + 1, Len(pushed)) =
                (IF IsItem(value) THEN <<value>> ELSE <<>>) \o SelectSeq(queue, IsItem))

\* push(v1, v2) found the waiter: v1 is on its way to the loop, v2 buffered.
C17_Witness ==
    /\ calls = << CallRec("push", 2, FALSE, NoError) >>
    /\ pc = "handed"
    /\ value = pushed[1]
    /\ queue = <<pushed[2]>>

\* C18: with the single loop, whenever a waiter is registered the buffer is
\* empty and the loop is the one suspended on it; every push or close that
\* inserts an entry leaves the waiter slot empty, so no entry sits in the
\* buffer while the loop stays suspended.
C18_WaiterImpliesEmpty ==
    /\ [](resolve => (queue = <<>> /\ pc = "waiting"))
    /\ [](pc = "waiting" => (resolve /\ queue = <<>>))
    /\ [][Len(calls') > Len(calls) => (~resolve' /\ pc' # "waiting")]_vars

\* push(v1) ran, the loop yielded v1 and is now suspended on an empty buffer.
C18_Witness ==
    /\ calls = << CallRec("push", 1, FALSE, NoError) >>
    /\ yielded = << [kind |-> "value", v |-> 1] >>
    /\ atClose.called = FALSE
    /\ resolve /\ pc = "waiting" /\ queue = <<>>

\* The entry the loop inspects in this step: the head it shifts, or the one
\* it was handed or is awaiting.
Taken == IF pc = "idle" THEN Head(queue) ELSE value

\* The loop ends by raising in this step.
Raises == pc # "thrown" /\ pc' = "thrown"

\* C19 as stated: whenever the loop raises it has just reached an error marker
\* and raises the accumulated failure, which is present; it raises in no other
\* way, also not when a pushed promise rejects.
C19_Original ==
    [][Raises => (Taken = ERROR /\ raised' = error /\ Truthy(error))]_vars

\* C19: whenever the loop raises, either it has just reached an error marker
\* and raises the accumulated failure, which is present at that moment, or the
\* entry it has just awaited is a pushed promise that rejected and it raises
\* that rejection; what it raised changes in no other step.
C19_RaiseOrigins ==
    [][/\ Raises =>
            \/ Taken = ERROR /\ raised' = error /\ Truthy(error)
            \/ /\ Taken.kind = "promise" /\ promises[Taken.v] = "rejected"
               /\ raised' = Rejection
       /\ raised' # raised => Raises]_vars

\* push(p), close({withError: E1}), p rejects: the loop raised the rejection
\* with the error marker still in the buffer and E1 recorded.
C19_Witness ==
    /\ pc = "thrown"
    /\ raised = Rejection
    /\ error = Err("E1")
    /\ queue = <<ERROR>>
    /\ Len(pushed) = 1

\* C20: once the queue has been closed, a push or close function taken from
\* it before that close is a no-op as well: no step adds an entry or a
\* sentinel to the buffer (or hands one to the waiter) and none records a
\* failure.
C20_CapturedNoOp ==
    [][atClose.called =>
        /\ Len(queue') <= Len(queue)
        /\ resolve => resolve'
        /\ error' = error]_vars

====
